---- MODULE Spec2Model ----
(***************************************************************************)
(* Model of the wall-clock card (WallClockCard) and of the Pirate Weather  *)
(* adapter (PirateWeatherProvider).                                        *)
(*                                                                         *)
(* Five specifications share the variables:                                *)
(*   Spec          the card: mounting, the readiness barrier and the       *)
(*                 post-ready effects of initConnectCallbackAsync;         *)
(*   SpecFetch     one call of PirateWeatherProvider.fetchWeatherAsync;    *)
(*   SpecTransform the pure normalisation functions of the adapter;        *)
(*   SpecRegistry  the providers module and the provider registry;         *)
(*   SpecBottomBar the card's constructor, render and the bottom bar.      *)
(*                                                                         *)
(* Numbers with a fractional part are fixed-point: Fixed(x) is x in        *)
(* thousandths.  Bearings are in half degrees.  JavaScript's undefined is  *)
(* the string "undefined".                                                 *)
(***************************************************************************)
EXTENDS Integers, Sequences, FiniteSets, TLC

VARIABLES
    \* ---- WallClockCard ----
    config,             \* this.config (the fields the claims read)
    weatherComponent,   \* fields pushed into this.weatherComponent
    ready,              \* controller.ready of each sub-component: resolved?
    mounted,            \* the element is connected to the document
    mounts,             \* number of connectedCallback invocations so far
    pc,                 \* position of each initConnectCallbackAsync invocation
    effects,            \* per invocation: how often each effect has happened
    messages,           \* messages published on Messenger, in order
    weatherFetches,     \* fetches started by the weather sub-component
    everShown,          \* history: config.showWeather has been truthy
    \* ---- PirateWeatherProvider.fetchWeatherAsync ----
    fpc,                \* position of the call
    fconfig,            \* the WeatherProviderConfig argument
    requests,           \* outbound requests issued by the call, in order
    response,           \* the Response the request resolved with, if any
    thrown,             \* the value thrown inside the try block, if any
    outcome,            \* settlement of the returned promise
    \* ---- pure functions ----
    call,               \* the function applied and its argument
    ret,                \* its result
    \* ---- weather provider registry ----
    loaded,             \* statements of the providers module evaluated so far
    registry,           \* WeatherProviderRegistry: its entries, in insertion order
    registered,         \* history: every provider passed to register, in order
    \* ---- bottom bar ----
    constructed,        \* registerComponent calls of the card constructor done
    bottomBarManager,   \* BottomBarManager: its components and currentComponent
    rendered,           \* what the last render of the card produced
    renders,            \* number of renders so far
    selections          \* number of selection steps so far

cardVars  == <<config, weatherComponent, ready, mounted, mounts, pc, effects,
               messages, weatherFetches, everShown>>
fetchVars == <<fpc, fconfig, requests, response, thrown, outcome>>
pureVars  == <<call, ret>>
regVars   == <<loaded, registry, registered>>
barVars   == <<constructed, bottomBarManager, rendered, renders, selections>>
vars      == <<config, weatherComponent, ready, mounted, mounts, pc, effects,
               messages, weatherFetches, everShown,
               fpc, fconfig, requests, response, thrown, outcome, call, ret,
               loaded, registry, registered,
               constructed, bottomBarManager, rendered, renders, selections>>

(***************************************************************************)
(* Bounds                                                                  *)
(***************************************************************************)
MaxMounts == 2
MaxWeatherFetches == 1
MaxHalfDegrees == 720   \* bearings applied: 0 to 360 degrees in half degrees
MaxDays == 10           \* longest vendor daily series applied
MaxRegistrations == 4   \* registerWeatherProvider calls after startup
MaxRenders == 3
MaxSelections == 2

(***************************************************************************)
(* JavaScript helpers                                                      *)
(***************************************************************************)
\* ToBoolean of the values the model uses: undefined, false, the numbers 0
\* and NaN (written "0" and "NaN") and the empty string are falsy.
Falsy == {"undefined", "false", "", "0", "NaN"}

Truthy(v) == v \notin Falsy

(***************************************************************************)
(* PirateWeatherProvider: normalisation functions                          *)
(*                                                                         *)
(* The repository holds two implementations of the adapter: the one of     *)
(* src/weather-providers/pirateweather-provider.ts (plain names below) and *)
(* the one that follows the card in part_000 (names ending in _p0).        *)
(***************************************************************************)
\* A number x with a fractional part is held as the integer x * 1000.
Fixed(x) == x * 1000

\* Math.round on a fixed-point number: the nearest integer, halves upwards.
MathRound(v) == ((2 * v + Fixed(1)) \div (2 * Fixed(1))) * Fixed(1)

\* Property names every object literal inherits from Object.prototype.
ObjectPrototypeProps ==
    {"constructor", "toString", "toLocaleString", "valueOf", "hasOwnProperty",
     "isPrototypeOf", "propertyIsEnumerable", "__proto__"}

\* table[key] on an object literal: an own property, else a property
\* inherited from Object.prototype (a function or object, truthy), else
\* undefined.
Lookup(table, key) ==
    IF key \in DOMAIN table THEN table[key]
    ELSE IF key \in ObjectPrototypeProps THEN "[inherited]"
    ELSE "undefined"

\* a || b
Or(a, b) == IF Truthy(a) THEN a ELSE b

\* The members of the Weather enum.
Weather ==
    {"All", "Clear", "ClearSky", "Clouds", "Rain", "Snow", "Mist", "Fog",
     "Wind", "Thunderstorm", "Extreme"}

unitsMap == ("metric" :> "si") @@ ("imperial" :> "us")

mapUnits(units) == Or(Lookup(unitsMap, units), "si")

iconMap ==
    ("clear-day" :> "ClearSky") @@ ("clear-night" :> "ClearSky") @@
    ("rain" :> "Rain") @@ ("snow" :> "Snow") @@ ("sleet" :> "Snow") @@
    ("wind" :> "Clouds") @@ ("fog" :> "Mist") @@ ("cloudy" :> "Clouds") @@
    ("partly-cloudy-day" :> "Clouds") @@ ("partly-cloudy-night" :> "Clouds") @@
    ("hail" :> "Snow") @@ ("thunderstorm" :> "Rain") @@ ("tornado" :> "Clouds")

mapIconToCondition(icon) == Or(Lookup(iconMap, icon), "All")

iconMap_p0 ==
    ("clear-day" :> "Clear") @@ ("clear-night" :> "Clear") @@
    ("rain" :> "Rain") @@ ("snow" :> "Snow") @@ ("sleet" :> "Snow") @@
    ("wind" :> "Wind") @@ ("fog" :> "Fog") @@ ("cloudy" :> "Clouds") @@
    ("partly-cloudy-day" :> "Clouds") @@ ("partly-cloudy-night" :> "Clouds") @@
    ("hail" :> "Snow") @@ ("thunderstorm" :> "Thunderstorm") @@
    ("tornado" :> "Extreme")

mapIconToCondition_p0(icon) == Or(Lookup(iconMap_p0, icon), "All")

directions ==
    <<"N", "NNE", "NE", "ENE", "E", "ESE", "SE", "SSE",
      "S", "SSW", "SW", "WSW", "W", "WNW", "NW", "NNW">>

bearingToDirectionFloor(bearing) ==
    directions[((bearing \div 45) % 16) + 1]

\* bearing is in half degrees, so bearing / 22.5 is bearing / 45 and
\* Math.round of it is floor((2 * bearing + 45) / 90).
bearingToDirection(bearing) ==
    directions[(((2 * bearing + 45) \div 90) % 16) + 1]

iconMapping ==
    ("clear-day" :> "01d") @@ ("clear-night" :> "01n") @@ ("rain" :> "10d") @@
    ("snow" :> "13d") @@ ("sleet" :> "13d") @@ ("wind" :> "50d") @@
    ("fog" :> "50d") @@ ("cloudy" :> "04d") @@ ("partly-cloudy-day" :> "02d") @@
    ("partly-cloudy-night" :> "02n") @@ ("hail" :> "09d") @@
    ("thunderstorm" :> "11d") @@ ("tornado" :> "50d")

getIconUrl(icon) ==
    <<"https://openweathermap.org/img/wn/", Or(Lookup(iconMapping, icon), "01d"),
      "@2x.png">>

iconMapping_p0 ==
    ("clear-day" :> "/clear.png") @@ ("clear-night" :> "/nt_clear.png") @@
    ("rain" :> "/rain.png") @@ ("snow" :> "/snow.png") @@
    ("sleet" :> "/sleet.png") @@ ("wind" :> "/wind.png") @@
    ("fog" :> "/fog.png") @@ ("cloudy" :> "/cloudy.png") @@
    ("partly-cloudy-day" :> "/partlycloudy.png") @@
    ("partly-cloudy-night" :> "/nt_partlycloudy.png") @@
    ("hail" :> "/sleet.png") @@ ("thunderstorm" :> "/tstorms.png") @@
    ("tornado" :> "/tornado.png")

getIconUrl_p0(icon) ==
    <<"https://raw.githubusercontent.com/manifestinteractive/weather-underground-icons/master/dist/icons/white/png/64x64",
      Or(Lookup(iconMapping_p0, icon), "/cloudy.png")>>

formatCondition(summary) == Or(summary, "Unknown")

\* day.temperatureMax || day.temperatureHigh on numbers: 0 is falsy.
OrNumber(a, b) == IF a # 0 THEN a ELSE b

transformDailyWeather(day) ==
    [date |-> day.time * 1000,
     temperatureMax |-> MathRound(OrNumber(day.temperatureMax, day.temperatureHigh)),
     temperatureMin |-> MathRound(OrNumber(day.temperatureMin, day.temperatureLow)),
     condition |-> formatCondition(day.summary),
     conditionUnified |-> mapIconToCondition(day.icon),
     icon |-> getIconUrl(day.icon),
     humidity |-> MathRound(day.humidity * 100),
     pressure |-> MathRound(day.pressure),
     windSpeed |-> MathRound(day.windSpeed * 10) \div 10,
     windGust |-> IF day.windGust # 0 THEN MathRound(day.windGust * 10) \div 10
                  ELSE "undefined",
     windBearing |-> day.windBearing,
     cloudCover |-> MathRound(day.cloudCover * 100),
     uvIndex |-> day.uvIndex]

transformDailyWeather_p0(day) ==
    [date |-> day.time * 1000,
     temperatureMax |-> OrNumber(day.temperatureMax, day.temperatureHigh),
     temperatureMin |-> OrNumber(day.temperatureMin, day.temperatureLow),
     condition |-> formatCondition(day.summary),
     conditionUnified |-> mapIconToCondition_p0(day.icon),
     icon |-> getIconUrl_p0(day.icon),
     humidity |-> day.humidity * 100,
     pressure |-> day.pressure,
     windSpeed |-> day.windSpeed,
     windGust |-> day.windGust,
     windBearing |-> day.windBearing,
     cloudCover |-> day.cloudCover * 100,
     uvIndex |-> day.uvIndex]

SliceFrom1(daily) == SubSeq(daily, 2, IF Len(daily) < 8 THEN Len(daily) ELSE 8)

\* daily.slice(0, 7)
Slice7(daily) == SubSeq(daily, 1, IF Len(daily) < 7 THEN Len(daily) ELSE 7)

transformResponse(data) ==
    [current |->
        [temperature |-> MathRound(data.currently.temperature),
         feelsLike |-> MathRound(data.currently.apparentTemperature),
         condition |-> formatCondition(data.currently.summary),
         conditionUnified |-> mapIconToCondition(data.currently.icon),
         icon |-> getIconUrl(data.currently.icon),
         humidity |-> MathRound(data.currently.humidity * 100),
         pressure |-> MathRound(data.currently.pressure),
         windSpeed |-> MathRound(data.currently.windSpeed * 10) \div 10,
         windDirection |-> bearingToDirection(data.currently.windBearing)],
     daily |-> [k \in 1..Len(Slice7(data.daily.data)) |->
                   transformDailyWeather(Slice7(data.daily.data)[k])]]

transformResponse_p0(data) ==
    [current |->
        [temperature |-> data.currently.temperature,
         feelsLike |-> data.currently.apparentTemperature,
         condition |-> formatCondition(data.currently.summary),
         conditionUnified |-> mapIconToCondition_p0(data.currently.icon),
         icon |-> getIconUrl_p0(data.currently.icon),
         humidity |-> data.currently.humidity * 100,
         pressure |-> data.currently.pressure,
         windSpeed |-> data.currently.windSpeed,
         windDirection |-> bearingToDirection(data.currently.windBearing),
         uvIndex |-> data.currently.uvIndex],
     daily |-> [k \in 1..Len(Slice7(data.daily.data)) |->
                   transformDailyWeather_p0(Slice7(data.daily.data)[k])],
     location |-> [latitude |-> data.latitude, longitude |-> data.longitude,
                   timezone |-> data.timezone]]

(***************************************************************************)
(* PirateWeatherProvider.fetchWeatherAsync                                 *)
(*                                                                         *)
(* A string built from parts is the sequence of its parts.  A thrown value *)
(* is a record: kind "Error" for an instance of Error, kind "object" for   *)
(* any other value; cause is the step that threw it.                       *)
(***************************************************************************)
baseUrl == "https://api.pirateweather.net/forecast"

getDefaultConfig ==
    [apiKey |-> "", latitude |-> "0", longitude |-> "0", units |-> "metric"]

NoThrow == [kind |-> "none", cause |-> "none", message |-> <<>>]

Error(cause, message) == [kind |-> "Error", cause |-> cause, message |-> message]

NonError(cause, message) ==
    [kind |-> "object", cause |-> cause, message |-> message]

ValidateBothCoordinates(cfg) ==
    IF ~Truthy(cfg.apiKey)
    THEN Error("config", <<"Pirate Weather API key is required">>)
    ELSE IF ~Truthy(cfg.latitude) /\ ~Truthy(cfg.longitude)
    THEN Error("config", <<"Latitude and longitude are required">>)
    ELSE NoThrow

\* The two checks that precede the request: the Error thrown, or NoThrow.
Validate(cfg) ==
    IF ~Truthy(cfg.apiKey)
    THEN Error("config", <<"Pirate Weather API key is required">>)
    ELSE IF ~Truthy(cfg.latitude) \/ ~Truthy(cfg.longitude)
    THEN Error("config", <<"Latitude and longitude are required">>)
    ELSE NoThrow

BuildUrl(cfg) ==
    <<baseUrl, "/", cfg.apiKey, "/", cfg.latitude, ",", cfg.longitude,
      "?units=", mapUnits(Or(cfg.units, "metric"))>>

ApiErrorMessage(r) == <<"Pirate Weather API error: ", r.status, " ", r.statusText>>

ResponseCheckIgnoresStatus(r) == NoThrow

\* if (!response.ok) throw new Error(...)
ResponseCheck(r) ==
    IF ~r.ok THEN Error("status", ApiErrorMessage(r)) ELSE NoThrow

CatchDropsMessage(e) ==
    Error(e.cause, <<"Failed to fetch Pirate Weather data">>)

\* The catch block: the Error thrown in place of the caught value e.
Catch(e) ==
    IF e.kind = "Error"
    THEN Error(e.cause, <<"Failed to fetch Pirate Weather data", ": ">> \o e.message)
    ELSE Error(e.cause, <<"Failed to fetch Pirate Weather data">>)

NoResponse == [received |-> FALSE, ok |-> FALSE, status |-> "", statusText |-> ""]

Response(ok, status, statusText) ==
    [received |-> TRUE, ok |-> ok, status |-> status, statusText |-> statusText]

\* Settlements of fetch(url): a rejection with a thrown value, or a Response.
FetchResults ==
    {[rejects |-> TRUE, error |-> Error("transport", <<"Failed to fetch">>),
      response |-> NoResponse],
     [rejects |-> TRUE, error |-> Error("transport", <<"NetworkError when attempting to fetch resource.">>),
      response |-> NoResponse],
     [rejects |-> TRUE, error |-> NonError("transport", <<"connection reset">>),
      response |-> NoResponse]}
    \cup
    {[rejects |-> FALSE, error |-> NoThrow, response |-> r] :
        r \in {Response(TRUE, "200", "OK"), Response(TRUE, "200", ""),
               Response(FALSE, "401", "Unauthorized"),
               Response(FALSE, "404", "Not Found"),
               Response(FALSE, "500", "Internal Server Error"),
               Response(FALSE, "429", "")}}

\* Settlements of response.json(): a rejection, or a body of some shape.
JsonResults ==
    {[rejects |-> TRUE, shape |-> "none",
      error |-> Error("parse", <<"Unexpected token < in JSON at position 0">>)],
     [rejects |-> TRUE, shape |-> "none",
      error |-> NonError("parse", <<"body stream already read">>)],
     [rejects |-> FALSE, shape |-> "forecast", error |-> NoThrow],
     [rejects |-> FALSE, shape |-> "noDaily", error |-> NoThrow],
     [rejects |-> FALSE, shape |-> "noCurrently", error |-> NoThrow]}

\* The TypeError transformResponse raises on a body that lacks daily
\* (data.daily.data, read first) or currently (currently.icon).
TransformThrows(shape) ==
    IF shape = "noDaily"
    THEN Error("transform", <<"Cannot read properties of undefined (reading 'data')">>)
    ELSE IF shape = "noCurrently"
    THEN Error("transform", <<"Cannot read properties of undefined (reading 'icon')">>)
    ELSE NoThrow

\* The body of a successful forecast response.
ForecastBody ==
    [latitude |-> Fixed(50), longitude |-> Fixed(14),
     timezone |-> "Europe/Prague",
     currently |->
        [time |-> 0, summary |-> "Clear", icon |-> "clear-day",
         temperature |-> Fixed(18) + 500,
         apparentTemperature |-> Fixed(17) + 499,
         humidity |-> 555, pressure |-> Fixed(1013) + 250,
         windSpeed |-> Fixed(3) + 460, windBearing |-> 450,
         cloudCover |-> 250, uvIndex |-> 4, visibility |-> Fixed(10)],
     daily |-> [summary |-> "Rain", icon |-> "rain", data |-> <<>>]]

NoData == [current |-> "none", daily |-> <<>>]

Unsettled == [state |-> "pending", error |-> NoThrow, data |-> NoData]

Rejected(e) == [state |-> "rejected", error |-> e, data |-> NoData]

Resolved(d) == [state |-> "resolved", error |-> NoThrow, data |-> d]

ConfigInputs ==
    [apiKey : {"undefined", "", "KEY"},
     latitude : {"undefined", "0", "NaN", "50.08"},
     longitude : {"undefined", "0", "14.42"},
     units : {"undefined", "metric", "imperial", "kelvin"}]

FetchIdle ==
    /\ fpc = "idle"
    /\ fconfig = getDefaultConfig
    /\ requests = <<>>
    /\ response = NoResponse
    /\ thrown = NoThrow
    /\ outcome = Unsettled

\* The call: validation, then the request is issued and awaited.
fetchWeatherAsync ==
    /\ fpc = "idle"
    /\ LET v == Validate(fconfig)
       IN IF v.kind # "none"
          THEN /\ fpc' = "rejected"
               /\ outcome' = Rejected(v)
               /\ requests' = requests
          ELSE /\ fpc' = "awaitFetch"
               /\ outcome' = outcome
               /\ requests' = Append(requests, BuildUrl(fconfig))
    /\ UNCHANGED <<fconfig, response, thrown>>
    /\ UNCHANGED <<cardVars, pureVars, regVars, barVars>>

FetchSettlesRetry ==
    /\ fpc = "awaitFetch"
    /\ \E r \in FetchResults :
         IF r.rejects /\ Len(requests) < 2
         THEN /\ requests' = Append(requests, BuildUrl(fconfig))
              /\ UNCHANGED <<fpc, response, thrown, outcome>>
         ELSE LET e == IF r.rejects THEN r.error ELSE ResponseCheck(r.response)
              IN /\ response' = r.response
                 /\ thrown' = e
                 /\ requests' = requests
                 /\ IF e.kind # "none"
                    THEN fpc' = "rejected" /\ outcome' = Rejected(Catch(e))
                    ELSE fpc' = "awaitJson" /\ outcome' = outcome
    /\ UNCHANGED <<fconfig>>
    /\ UNCHANGED <<cardVars, pureVars, regVars, barVars>>

\* fetch(url) settles: a rejection or a non-ok response is thrown inside the
\* try and caught; an ok response has its json() called and awaited.
FetchSettles ==
    /\ fpc = "awaitFetch"
    /\ \E r \in FetchResults :
         LET e == IF r.rejects THEN r.error ELSE ResponseCheck(r.response)
         IN /\ response' = r.response
            /\ thrown' = e
            /\ IF e.kind # "none"
               THEN fpc' = "rejected" /\ outcome' = Rejected(Catch(e))
               ELSE fpc' = "awaitJson" /\ outcome' = outcome
    /\ UNCHANGED <<fconfig, requests>>
    /\ UNCHANGED <<cardVars, pureVars, regVars, barVars>>

\* response.json() settles: a rejection is caught; a body is transformed,
\* and what the transform throws is caught.
JsonSettles ==
    /\ fpc = "awaitJson"
    /\ \E j \in JsonResults :
         LET e == IF j.rejects THEN j.error ELSE TransformThrows(j.shape)
         IN /\ thrown' = e
            /\ IF e.kind # "none"
               THEN fpc' = "rejected" /\ outcome' = Rejected(Catch(e))
               ELSE /\ fpc' = "resolved"
                    /\ outcome' = Resolved(transformResponse(ForecastBody))
    /\ UNCHANGED <<fconfig, requests, response>>
    /\ UNCHANGED <<cardVars, pureVars, regVars, barVars>>

(***************************************************************************)
(* Weather provider registry and the providers module                      *)
(*                                                                         *)
(* A provider instance is a record of its id and a serial number that      *)
(* tells instances of one id apart.  The registry is a map from id to      *)
(* instance that keeps insertion order: a sequence of instances with       *)
(* distinct ids.                                                           *)
(***************************************************************************)
ProviderIds == {"openweathermap", "pirateweather", "custom"}

Provider(id, serial) == [id |-> id, serial |-> serial]

\* The instances the providers module itself creates.
openWeatherMapProvider == Provider("openweathermap", 0)

pirateWeatherProvider == Provider("pirateweather", 0)

\* Position of id in the registry, 0 when it has no entry.
IndexOf(reg, id) ==
    IF \E k \in 1..Len(reg) : reg[k].id = id
    THEN CHOOSE k \in 1..Len(reg) : reg[k].id = id
    ELSE 0

\* registry.register(provider): upsert by id; an existing id keeps its place
\* and takes the new instance.
register(reg, provider) ==
    IF IndexOf(reg, provider.id) = 0
    THEN Append(reg, provider)
    ELSE [reg EXCEPT ![IndexOf(reg, provider.id)] = provider]

\* The undefined that getProvider returns for an id without entry.
NoProvider == Provider("undefined", -1)

\* registry.getProvider(id)
getProvider(reg, id) ==
    IF IndexOf(reg, id) = 0 THEN NoProvider ELSE reg[IndexOf(reg, id)]

\* registry.getAllProviders()
getAllProviders(reg) == reg

registerIfAbsent(reg, provider) ==
    IF IndexOf(reg, provider.id) = 0 THEN Append(reg, provider) ELSE reg

\* export function registerWeatherProvider(provider)
registerWeatherProviderResult(reg, provider) == register(reg, provider)

\* export function getAllWeatherProviders()
getAllWeatherProviders == getAllProviders(registry)

\* export function getWeatherProvider(id)
getWeatherProvider(id) == getProvider(registry, id)

RegistryIdle ==
    /\ loaded = 2
    /\ registry = <<openWeatherMapProvider, pirateWeatherProvider>>
    /\ registered = <<openWeatherMapProvider, pirateWeatherProvider>>

\* The providers module is evaluated: registry.register(openWeatherMapProvider)
LoadRegisterOpenWeatherMap ==
    /\ loaded = 0
    /\ loaded' = 1
    /\ registry' = register(registry, openWeatherMapProvider)
    /\ registered' = Append(registered, openWeatherMapProvider)
    /\ UNCHANGED <<cardVars, fetchVars, pureVars, barVars>>

\* ... then registry.register(pirateWeatherProvider)
LoadRegisterPirateWeather ==
    /\ loaded = 1
    /\ loaded' = 2
    /\ registry' = register(registry, pirateWeatherProvider)
    /\ registered' = Append(registered, pirateWeatherProvider)
    /\ UNCHANGED <<cardVars, fetchVars, pureVars, barVars>>

\* A caller registers a provider of its own; the export exists once the
\* module has been evaluated.
registerWeatherProvider(id) ==
    /\ loaded = 2
    /\ Len(registered) < 2 + MaxRegistrations
    /\ LET provider == Provider(id, Len(registered))
       IN /\ registry' = registerWeatherProviderResult(registry, provider)
          /\ registered' = Append(registered, provider)
    /\ UNCHANGED loaded
    /\ UNCHANGED <<cardVars, fetchVars, pureVars, barVars>>

(***************************************************************************)
(* BottomBarManager and the card's use of it                               *)
(*                                                                         *)
(* A component is named by a string; currentComponent is "null" when no    *)
(* component is current; an empty render is the empty string.              *)
(***************************************************************************)
\* new BottomBarManager(this)
NewBottomBarManager == [components |-> <<>>, currentComponent |-> "null"]

\* registerComponent(component): append to the ordered registry.
registerComponent(mgr, component) ==
    [mgr EXCEPT !.components = Append(@, component)]

\* BottomBarManager.render(): the current component's render, or nothing.
BottomBarManagerRender(mgr) ==
    IF mgr.currentComponent = "null" THEN "" ELSE mgr.currentComponent

ConstructorComponentSwapped(k) == IF k = 1 THEN "actionBar" ELSE "transportation"

\* The component the k-th registerComponent call of the constructor passes.
ConstructorComponent(k) == IF k = 1 THEN "transportation" ELSE "actionBar"

NoRender == [clockMarginStyle |-> "none", weather |-> FALSE, bottomBar |-> "none"]

BarIdle ==
    /\ constructed = 2
    /\ bottomBarManager =
          registerComponent(registerComponent(NewBottomBarManager,
                                              ConstructorComponent(1)),
                            ConstructorComponent(2))
    /\ rendered = NoRender
    /\ renders = 0
    /\ selections = 0

\* The constructor registers its next bottom-bar component.
ConstructorRegister ==
    /\ constructed < 2
    /\ constructed' = constructed + 1
    /\ bottomBarManager' =
          registerComponent(bottomBarManager, ConstructorComponent(constructed + 1))
    /\ UNCHANGED <<rendered, renders, selections>>
    /\ UNCHANGED <<cardVars, fetchVars, pureVars, regVars>>

\* The selection policy, outside the card, makes a registered component
\* current or clears the selection.
SelectComponent(c) ==
    /\ constructed = 2
    /\ selections < MaxSelections
    /\ \/ c = "null"
       \/ \E k \in 1..Len(bottomBarManager.components) :
             bottomBarManager.components[k] = c
    /\ bottomBarManager' = [bottomBarManager EXCEPT !.currentComponent = c]
    /\ selections' = selections + 1
    /\ UNCHANGED <<constructed, rendered, renders>>
    /\ UNCHANGED <<cardVars, fetchVars, pureVars, regVars>>

\* render() of the card: the clock margin follows currentComponent, the
\* weather slot follows config.showWeather, the bottom slot is the manager's
\* render.
render ==
    /\ constructed = 2
    /\ renders < MaxRenders
    /\ rendered' =
          [clockMarginStyle |-> IF bottomBarManager.currentComponent # "null"
                                THEN "margin-top: -140px;" ELSE "",
           weather |-> Truthy(config.showWeather),
           bottomBar |-> BottomBarManagerRender(bottomBarManager)]
    /\ renders' = renders + 1
    /\ UNCHANGED <<constructed, bottomBarManager, selections>>
    /\ UNCHANGED <<cardVars, fetchVars, pureVars, regVars>>

(***************************************************************************)
(* WallClockCard                                                           *)
(***************************************************************************)
\* The six sub-components whose controller.ready the card awaits.
Components == {"weather", "backgroundImage", "clock", "sensors",
               "transportation", "actionBar"}

ShowWeatherValues == {"undefined", "false", "true"}

Invocations == 1..MaxMounts

\* Per invocation of initConnectCallbackAsync: how often each effect has
\* happened, how the translation load went, and the value of
\* config.showWeather read by the final if ("none": not read yet).
NoEffects == [reapply |-> 0, logger |-> 0, translations |-> 0,
              translationsResult |-> "none", errorsLogged |-> 0,
              showWeatherRead |-> "none", publish |-> 0]

\* new WeatherMessage(Weather.All)
SuppressionMessage == [type |-> "WeatherMessage", weather |-> "All"]

\* setupComponents: the weather fields pushed into the weather sub-component.
setupComponents(cfg) == [showWeather |-> cfg.showWeather]

AllReadyButLast == \A c \in Components \ {"actionBar"} : ready[c]

\* Promise.all over the six ready signals has resolved.
AllReady == \A c \in Components : ready[c]

PublishStepInverted(i, eff) ==
    LET e == [eff EXCEPT !.showWeatherRead = config.showWeather]
    IN IF Truthy(config.showWeather)
       THEN /\ messages' = Append(messages, SuppressionMessage)
            /\ effects' = [effects EXCEPT ![i] = [e EXCEPT !.publish = @ + 1]]
       ELSE /\ messages' = messages
            /\ effects' = [effects EXCEPT ![i] = e]

PublishStepAtMount(i, eff) ==
    LET e == [eff EXCEPT !.showWeatherRead = config.showWeather]
    IN IF ~Truthy(weatherComponent.showWeather)
       THEN /\ messages' = Append(messages, SuppressionMessage)
            /\ effects' = [effects EXCEPT ![i] = [e EXCEPT !.publish = @ + 1]]
       ELSE /\ messages' = messages
            /\ effects' = [effects EXCEPT ![i] = e]

\* The statement after the try/catch: the conditional suppression publish.
PublishStep(i, eff) ==
    LET e == [eff EXCEPT !.showWeatherRead = config.showWeather]
    IN IF ~Truthy(config.showWeather)
       THEN /\ messages' = Append(messages, SuppressionMessage)
            /\ effects' = [effects EXCEPT ![i] = [e EXCEPT !.publish = @ + 1]]
       ELSE /\ messages' = messages
            /\ effects' = [effects EXCEPT ![i] = e]

TranslationsTailNoCatch(i, eff, failed) ==
    IF failed
    THEN /\ pc' = [pc EXCEPT ![i] = "rejected"]
         /\ effects' = [effects EXCEPT ![i] = eff]
         /\ messages' = messages
    ELSE /\ pc' = [pc EXCEPT ![i] = "done"]
         /\ PublishStep(i, eff)

\* The try/catch around loadTranslationsAsync once the load has settled, and
\* the rest of the function: a failure is logged with logger.error and
\* execution continues with the publish step.
TranslationsTail(i, eff, failed) ==
    /\ pc' = [pc EXCEPT ![i] = "done"]
    /\ PublishStep(i, IF failed THEN [eff EXCEPT !.errorsLogged = @ + 1]
                                ELSE eff)

CardInit ==
    /\ config = [showWeather |-> "undefined"]
    /\ weatherComponent = setupComponents([showWeather |-> "undefined"])
    /\ ready = [c \in Components |-> FALSE]
    /\ mounted = FALSE
    /\ mounts = 0
    /\ pc = [i \in Invocations |-> "idle"]
    /\ effects = [i \in Invocations |-> NoEffects]
    /\ messages = <<>>
    /\ weatherFetches = 0
    /\ everShown = FALSE

\* The host assigns the config property.
SetConfig(v) ==
    /\ config.showWeather # v
    /\ config' = [config EXCEPT !.showWeather = v]
    /\ everShown' = (everShown \/ Truthy(v))
    /\ UNCHANGED <<weatherComponent, ready, mounted, mounts, pc, effects,
                   messages, weatherFetches>>
    /\ UNCHANGED <<fetchVars, pureVars, regVars, barVars>>

\* A sub-component finishes its own setup: its one-shot ready signal resolves.
ReadyResolves(c) ==
    /\ ~ready[c]
    /\ ready' = [ready EXCEPT ![c] = TRUE]
    /\ UNCHANGED <<config, weatherComponent, mounted, mounts, pc, effects,
                   messages, weatherFetches, everShown>>
    /\ UNCHANGED <<fetchVars, pureVars, regVars, barVars>>

connectedCallbackOnce ==
    /\ ~mounted
    /\ mounts < MaxMounts
    /\ mounted' = TRUE
    /\ mounts' = mounts + 1
    /\ weatherComponent' = setupComponents(config)
    /\ pc' = IF mounts = 0 THEN [pc EXCEPT ![mounts + 1] = "awaitReady"] ELSE pc
    /\ UNCHANGED <<config, ready, effects, messages, weatherFetches, everShown>>
    /\ UNCHANGED <<fetchVars, pureVars, regVars, barVars>>

\* connectedCallback: re-push the configuration, then start
\* initConnectCallbackAsync, which runs up to its first await.
connectedCallback ==
    /\ ~mounted
    /\ mounts < MaxMounts
    /\ mounted' = TRUE
    /\ mounts' = mounts + 1
    /\ weatherComponent' = setupComponents(config)
    /\ pc' = [pc EXCEPT ![mounts + 1] = "awaitReady"]
    /\ UNCHANGED <<config, ready, effects, messages, weatherFetches, everShown>>
    /\ UNCHANGED <<fetchVars, pureVars, regVars, barVars>>

\* The element is removed from the document; the card overrides nothing.
disconnectedCallback ==
    /\ mounted
    /\ mounted' = FALSE
    /\ UNCHANGED <<config, weatherComponent, ready, mounts, pc, effects,
                   messages, weatherFetches, everShown>>
    /\ UNCHANGED <<fetchVars, pureVars, regVars, barVars>>

\* initConnectCallbackAsync resumes after Promise.all: re-apply the
\* transportation fields, configure the logger, call loadTranslationsAsync.
\* The call either returns a pending promise or throws synchronously; a
\* synchronous throw is caught at once and the function runs to its end.
BarrierClears(i) ==
    /\ pc[i] = "awaitReady"
    /\ AllReady
    /\ \E started \in {"pending", "threw"} :
         LET eff == [effects[i] EXCEPT !.reapply = @ + 1,
                                       !.logger = @ + 1,
                                       !.translations = @ + 1,
                                       !.translationsResult = started]
         IN IF started = "pending"
            THEN /\ pc' = [pc EXCEPT ![i] = "awaitTranslations"]
                 /\ effects' = [effects EXCEPT ![i] = eff]
                 /\ messages' = messages
            ELSE TranslationsTail(i, eff, TRUE)
    /\ UNCHANGED <<config, weatherComponent, ready, mounted, mounts,
                   weatherFetches, everShown>>
    /\ UNCHANGED <<fetchVars, pureVars, regVars, barVars>>

\* The promise of loadTranslationsAsync settles; the function runs to its end.
TranslationsSettle(i) ==
    /\ pc[i] = "awaitTranslations"
    /\ \E settled \in {"resolved", "rejected"} :
         TranslationsTail(i, [effects[i] EXCEPT !.translationsResult = settled],
                          settled = "rejected")
    /\ UNCHANGED <<config, weatherComponent, ready, mounted, mounts,
                   weatherFetches, everShown>>
    /\ UNCHANGED <<fetchVars, pureVars, regVars, barVars>>

\* The weather sub-component, when active, fetches from its provider.
WeatherComponentFetch ==
    /\ Truthy(weatherComponent.showWeather)
    /\ weatherFetches < MaxWeatherFetches
    /\ weatherFetches' = weatherFetches + 1
    /\ UNCHANGED <<config, weatherComponent, ready, mounted, mounts, pc,
                   effects, messages, everShown>>
    /\ UNCHANGED <<fetchVars, pureVars, regVars, barVars>>

PureIdle ==
    /\ call = [fn |-> "none", adapter |-> "ts", icon |-> "", bearing |-> 0,
               ratio |-> 0, field |-> "none", days |-> 0]
    /\ ret = [done |-> FALSE, value |-> "none"]

Init == CardInit /\ FetchIdle /\ PureIdle /\ RegistryIdle /\ BarIdle

Next ==
    \/ \E v \in ShowWeatherValues : SetConfig(v)
    \/ \E c \in Components : ReadyResolves(c)
    \/ connectedCallback
    \/ disconnectedCallback
    \/ \E i \in Invocations : BarrierClears(i)
    \/ \E i \in Invocations : TranslationsSettle(i)
    \/ WeatherComponentFetch

Spec == Init /\ [][Next]_vars

(***************************************************************************)
(* Claims about the card, checked under Spec                               *)
(***************************************************************************)
\* All six ready signals have resolved, spelt out signal by signal.
EverySignalResolved ==
    /\ ready["weather"] /\ ready["backgroundImage"] /\ ready["clock"]
    /\ ready["sensors"] /\ ready["transportation"] /\ ready["actionBar"]

\* Some post-ready effect of invocation i has happened.
SomeEffect(i) ==
    \/ effects[i].reapply > 0
    \/ effects[i].logger > 0
    \/ effects[i].translations > 0
    \/ effects[i].publish > 0

\* C1: no post-ready effect of initConnectCallbackAsync (re-applying the
\* transportation fields, configureLogger, the loadTranslationsAsync attempt,
\* the suppression publish) has happened unless all six ready signals have
\* resolved; as a signal never un-resolves, an invocation whose barrier lacks
\* a signal has produced none of them and is still waiting.
C1_BarrierPrecedesEffects ==
    /\ \A i \in Invocations : SomeEffect(i) => EverySignalResolved
    /\ \A i \in Invocations :
         (pc[i] # "idle" /\ ~EverySignalResolved) => (pc[i] = "awaitReady" /\ ~SomeEffect(i))
    /\ (messages # <<>>) => EverySignalResolved

C1_Witness ==
    \E i \in Invocations :
        /\ EverySignalResolved
        /\ pc[i] = "done"
        /\ effects[i].reapply = 1 /\ effects[i].logger = 1
        /\ effects[i].translations = 1 /\ effects[i].publish = 1

\* C2: while config.showWeather has never been truthy, every invocation of
\* initConnectCallbackAsync publishes nothing before its barrier clears and
\* exactly one suppression message (WeatherMessage carrying Weather.All) by
\* the time it completes, the Messenger holds exactly those messages, and the
\* weather sub-component has attempted no fetch.
C2_OneSuppressionNoFetch ==
    (~everShown) =>
        /\ weatherFetches = 0
        /\ \A i \in Invocations :
             /\ effects[i].publish <= 1
             /\ (pc[i] \in {"idle", "awaitReady"}) => effects[i].publish = 0
             /\ (effects[i].publish > 0) => EverySignalResolved
             /\ (pc[i] = "done") => effects[i].publish = 1
        /\ Len(messages) = Cardinality({i \in Invocations : pc[i] = "done"})
        /\ \A k \in 1..Len(messages) : messages[k] = SuppressionMessage

C2_Witness ==
    /\ ~everShown
    /\ config.showWeather = "false"
    /\ weatherComponent.showWeather = "false"
    /\ mounts = 1
    /\ pc[1] = "done"
    /\ messages = <<SuppressionMessage>>

\* C3: when loadTranslationsAsync has failed (rejected or thrown) in an
\* invocation, that invocation has completed without rejecting, the failure
\* has been logged once, configureLogger has been applied, and the
\* suppression message has been published if showWeather was falsy.
C3_TranslationFailureTolerated ==
    \A i \in Invocations :
        (effects[i].translationsResult \in {"rejected", "threw"}) =>
            /\ pc[i] = "done"
            /\ effects[i].errorsLogged = 1
            /\ effects[i].logger = 1
            /\ effects[i].showWeatherRead # "none"
            /\ (~Truthy(effects[i].showWeatherRead)) => effects[i].publish = 1

C3_Witness ==
    \E i \in Invocations :
        /\ effects[i].translationsResult = "rejected"
        /\ effects[i].showWeatherRead = "false"
        /\ effects[i].publish = 1
        /\ effects[i].logger = 1

\* Sum of f over the invocations 1..n.
RECURSIVE SumTo(_, _)
SumTo(f, n) == IF n = 0 THEN 0 ELSE f[n] + SumTo(f, n - 1)

\* How often, over all invocations, the named effect has happened.
Total(name) == SumTo([i \in Invocations |-> effects[i][name]], MaxMounts)

\* C14: every connectedCallback starts its own barrier wait and nothing
\* deduplicates or cancels them: each of the k mounts so far has its own
\* invocation, a waiting invocation whose signals are all resolved can go on
\* whether or not the card is still mounted, each completed invocation has
\* configured the logger once and attempted the translation load once, and
\* when all k have completed these have happened k times in total, with k
\* suppression messages published if showWeather has stayed falsy.
C14_EveryMountRunsItsOwnWait ==
    /\ \A i \in Invocations : (i <= mounts) <=> (pc[i] # "idle")
    /\ \A i \in Invocations :
          (pc[i] = "awaitReady" /\ EverySignalResolved) => ENABLED BarrierClears(i)
    /\ \A i \in Invocations :
          (pc[i] = "awaitTranslations") => ENABLED TranslationsSettle(i)
    /\ \A i \in Invocations :
          (pc[i] = "done") =>
              /\ effects[i].logger = 1
              /\ effects[i].translations = 1
              /\ (~everShown) => effects[i].publish = 1
    /\ (\A i \in 1..mounts : pc[i] = "done") =>
          /\ Total("logger") = mounts
          /\ Total("translations") = mounts
          /\ (~everShown) => (Len(messages) = mounts /\ Total("publish") = mounts)

C14_Witness ==
    /\ mounts = 2
    /\ ~mounted
    /\ ~everShown
    /\ pc[1] = "done" /\ pc[2] = "done"
    /\ Total("logger") = 2
    /\ Total("translations") = 2
    /\ messages = <<SuppressionMessage, SuppressionMessage>>

\* The translation load attempt of invocation i has settled.
TranslationsSettled(i) ==
    effects[i].translationsResult \in {"resolved", "rejected", "threw"}

\* C15: the suppression message of an invocation is published in the step
\* that completes it, after the barrier has cleared and the translation load
\* attempt has settled, and it is published if and only if config.showWeather
\* is falsy (false or unset) in that step, whatever it was at mount.
C15_PublishDecidedAtTheEnd ==
    /\ [](\A i \in Invocations :
             /\ (effects[i].publish > 0) =>
                   (pc[i] = "done" /\ TranslationsSettled(i) /\ EverySignalResolved)
             /\ (pc[i] = "done") =>
                   /\ TranslationsSettled(i)
                   /\ effects[i].showWeatherRead \in ShowWeatherValues
                   /\ effects[i].publish =
                         IF effects[i].showWeatherRead \in {"false", "undefined"}
                         THEN 1 ELSE 0)
    /\ [][\A i \in Invocations :
             /\ (pc[i] # "done" /\ pc'[i] = "done") =>
                   /\ effects'[i].showWeatherRead = config.showWeather
                   /\ (effects'[i].publish = effects[i].publish + 1)
                         <=> (config.showWeather \in {"false", "undefined"})
                   /\ (effects'[i].publish = effects[i].publish)
                         <=> (config.showWeather = "true")
             /\ (pc[i] = "done" \/ pc'[i] # "done") =>
                   effects'[i].publish = effects[i].publish]_vars

C15_Witness ==
    /\ mounts = 1
    /\ weatherComponent.showWeather = "true"
    /\ pc[1] = "done"
    /\ effects[1].showWeatherRead = "false"
    /\ effects[1].publish = 1
    /\ messages = <<SuppressionMessage>>

(***************************************************************************)
(* SpecFetch: one call of fetchWeatherAsync on each configuration          *)
(***************************************************************************)
InitFetch ==
    /\ CardInit /\ PureIdle /\ RegistryIdle /\ BarIdle
    /\ fpc = "idle"
    /\ fconfig \in ConfigInputs
    /\ requests = <<>>
    /\ response = NoResponse
    /\ thrown = NoThrow
    /\ outcome = Unsettled

NextFetch ==
    \/ fetchWeatherAsync
    \/ FetchSettles
    \/ JsonSettles

SpecFetch == InitFetch /\ [][NextFetch]_vars

(***************************************************************************)
(* Claims about fetchWeatherAsync, checked under SpecFetch                 *)
(***************************************************************************)
\* The configuration lacks its key or one of its coordinates.
Incomplete(cfg) ==
    \/ cfg.apiKey \in {"", "undefined"}
    \/ cfg.latitude \in {"0", "undefined"}
    \/ cfg.longitude \in {"0", "undefined"}

\* C4: a call whose apiKey is empty or absent, or whose latitude or
\* longitude is zero or absent (either one suffices), is rejected without
\* any request having been issued; so is a call on getDefaultConfig().
C4_RejectsIncompleteConfig ==
    (fpc # "idle" /\ (Incomplete(fconfig) \/ fconfig = getDefaultConfig)) =>
        /\ fpc = "rejected"
        /\ outcome.state = "rejected"
        /\ outcome.error.cause = "config"
        /\ requests = <<>>

C4_Witness ==
    /\ fconfig.apiKey = "KEY"
    /\ fconfig.latitude = "50.08"
    /\ fconfig.longitude = "0"
    /\ fpc = "rejected"
    /\ requests = <<>>

C4_WitnessDefault ==
    fconfig = getDefaultConfig /\ fpc = "rejected" /\ requests = <<>>

\* The configuration has a key and both coordinates.
Complete(cfg) ==
    /\ cfg.apiKey = "KEY"
    /\ cfg.latitude = "50.08"
    /\ cfg.longitude = "14.42"

\* C5: a call whose config passes validation has issued exactly one request,
\* whatever became of it (success, non-success status, transport failure,
\* parse failure); no call ever has a second request.
C5_ExactlyOneRequest ==
    /\ Len(requests) <= 1
    /\ (fpc # "idle" /\ Complete(fconfig)) => Len(requests) = 1

C5_Witness ==
    /\ Complete(fconfig)
    /\ fpc = "rejected"
    /\ thrown.cause = "transport"
    /\ Len(requests) = 1

\* Sequence m has the parts of p, in order and adjacent, somewhere in it.
Embeds(m, p) ==
    \E k \in 0..(Len(m) - Len(p)) : SubSeq(m, k + 1, k + Len(p)) = p

\* The message names a vendor API error.
NamesApiError(m) == \E k \in 1..Len(m) : m[k] = "Pirate Weather API error: "

\* C6: when the request returned a non-success response, the call is
\* rejected with an error whose message embeds the status code and the
\* status text; and a rejected call's message names an API error exactly
\* when the failure was a non-success response, so that outcome differs from
\* that of every transport or parsing failure.
C6_StatusFailureDistinct ==
    /\ (response.received /\ ~response.ok) =>
          /\ fpc = "rejected"
          /\ outcome.state = "rejected"
          /\ Embeds(outcome.error.message, <<response.status, " ", response.statusText>>)
          /\ NamesApiError(outcome.error.message)
    /\ (fpc = "rejected" /\ requests # <<>>) =>
          (NamesApiError(outcome.error.message) <=> (response.received /\ ~response.ok))

C6_Witness ==
    /\ response = Response(FALSE, "404", "Not Found")
    /\ outcome.state = "rejected"
    /\ outcome.error.message =
          <<"Failed to fetch Pirate Weather data", ": ",
            "Pirate Weather API error: ", "404", " ", "Not Found">>

\* C7 as stated: any failure raised after validation makes the call reject
\* with the prefix 'Failed to fetch Pirate Weather data' followed by the
\* original failure's message, for every thrown value.
C7_OriginalMessageAlwaysPreserved ==
    (thrown.kind # "none") =>
        /\ fpc = "rejected"
        /\ outcome.state = "rejected"
        /\ outcome.error.message[1] = "Failed to fetch Pirate Weather data"
        /\ Embeds(outcome.error.message, thrown.message)
        /\ Len(outcome.error.message) > Len(thrown.message)

\* C7 as amended: any failure raised after validation makes the call reject
\* (it never resolves with data); the message is the prefix followed by ': '
\* and the original message when the thrown value is an Error, and the bare
\* prefix when it is not.
C7_WrappedFailure ==
    (thrown.kind # "none") =>
        /\ fpc = "rejected"
        /\ outcome.state = "rejected"
        /\ outcome.data = NoData
        /\ outcome.error.kind = "Error"
        /\ (thrown.kind = "Error") =>
              outcome.error.message =
                 <<"Failed to fetch Pirate Weather data", ": ">> \o thrown.message
        /\ (thrown.kind # "Error") =>
              outcome.error.message = <<"Failed to fetch Pirate Weather data">>

C7_Witness ==
    /\ thrown.kind = "Error"
    /\ thrown.cause = "parse"
    /\ outcome.error.message =
          <<"Failed to fetch Pirate Weather data", ": ",
            "Unexpected token < in JSON at position 0">>

(***************************************************************************)
(* SpecTransform: the normalisation functions applied to bounded inputs    *)
(***************************************************************************)
Adapters == {"ts", "p0"}

VendorIcons ==
    {"clear-day", "clear-night", "rain", "snow", "sleet", "wind", "fog",
     "cloudy", "partly-cloudy-day", "partly-cloudy-night", "hail",
     "thunderstorm", "tornado"}

\* Icon strings applied: the vendor's codes, the empty string, codes the
\* vendor does not have, and arbitrary keys.
Icons ==
    VendorIcons \cup {"", "unknown", "clear", "Rain", "drizzle",
                      "constructor", "toString", "hasOwnProperty", "__proto__"}

RatioFields == {"humidity", "dailyHumidity", "dailyCloudCover"}

NoCall == [fn |-> "none", adapter |-> "ts", icon |-> "", bearing |-> 0,
           ratio |-> 0, field |-> "none", days |-> 0]

IconCalls ==
    {[NoCall EXCEPT !.fn = "mapIconToCondition", !.adapter = a, !.icon = i] :
        a \in Adapters, i \in Icons}

BearingCalls ==
    {[NoCall EXCEPT !.fn = "bearingToDirection", !.bearing = b] :
        b \in 0..MaxHalfDegrees}

RatioCalls ==
    {[NoCall EXCEPT !.fn = "transformResponse", !.adapter = a, !.ratio = r,
                    !.field = f, !.days = 1] :
        a \in Adapters, r \in 0..Fixed(1), f \in RatioFields}

SeriesCalls ==
    {[NoCall EXCEPT !.fn = "transformResponse", !.adapter = a, !.days = n] :
        a \in Adapters, n \in 0..MaxDays}

\* The k-th entry of the vendor's daily series of a call.
VendorDay(c, k) ==
    [time |-> 86400 * k,
     summary |-> IF k % 2 = 0 THEN "" ELSE "Light rain",
     icon |-> IF k % 2 = 0 THEN "cloudy" ELSE "rain",
     temperatureHigh |-> Fixed(20) + 100 * k,
     temperatureLow |-> Fixed(-3) + 100 * k,
     temperatureMax |-> IF k % 3 = 0 THEN 0 ELSE Fixed(21) + 500,
     temperatureMin |-> Fixed(-4) - 500,
     apparentTemperatureHigh |-> Fixed(19),
     apparentTemperatureLow |-> Fixed(-5),
     humidity |-> IF c.field = "dailyHumidity" THEN c.ratio ELSE 10 * k,
     pressure |-> Fixed(1013) + 250,
     windSpeed |-> Fixed(3) + 460,
     windGust |-> IF k % 2 = 0 THEN 0 ELSE Fixed(7) + 149,
     windBearing |-> 45 * k,
     cloudCover |-> IF c.field = "dailyCloudCover" THEN c.ratio ELSE 20 * k,
     uvIndex |-> k]

\* The vendor response a call transforms.
VendorResponse(c) ==
    [latitude |-> Fixed(50), longitude |-> Fixed(14),
     timezone |-> "Europe/Prague",
     currently |->
        [time |-> 0, summary |-> "Clear", icon |-> "clear-day",
         temperature |-> Fixed(18) + 500,
         apparentTemperature |-> Fixed(17) + 499,
         humidity |-> IF c.field = "humidity" THEN c.ratio ELSE 500,
         pressure |-> Fixed(1013) + 250,
         windSpeed |-> Fixed(3) + 460,
         windBearing |-> 450,
         cloudCover |-> 250, uvIndex |-> 4, visibility |-> Fixed(10)],
     daily |-> [summary |-> "Rain", icon |-> "rain",
                data |-> [k \in 1..c.days |-> VendorDay(c, k)]]]

Pending == [done |-> FALSE, value |-> "none"]

Returned(v) == [done |-> TRUE, value |-> v]

CardIdle == CardInit

InitTransform ==
    /\ CardIdle /\ FetchIdle /\ RegistryIdle /\ BarIdle
    /\ call \in IconCalls \cup BearingCalls \cup RatioCalls \cup SeriesCalls
    /\ ret = Pending

ApplyMapIconToCondition ==
    /\ call.fn = "mapIconToCondition" /\ ~ret.done
    /\ ret' = Returned(IF call.adapter = "ts"
                       THEN mapIconToCondition(call.icon)
                       ELSE mapIconToCondition_p0(call.icon))
    /\ UNCHANGED <<call, cardVars, fetchVars, regVars, barVars>>

ApplyBearingToDirection ==
    /\ call.fn = "bearingToDirection" /\ ~ret.done
    /\ ret' = Returned(bearingToDirection(call.bearing))
    /\ UNCHANGED <<call, cardVars, fetchVars, regVars, barVars>>

ApplyTransformResponse ==
    /\ call.fn = "transformResponse" /\ ~ret.done
    /\ ret' = Returned(IF call.adapter = "ts"
                       THEN transformResponse(VendorResponse(call))
                       ELSE transformResponse_p0(VendorResponse(call)))
    /\ UNCHANGED <<call, cardVars, fetchVars, regVars, barVars>>

NextTransform ==
    \/ ApplyMapIconToCondition
    \/ ApplyBearingToDirection
    \/ ApplyTransformResponse

SpecTransform == InitTransform /\ [][NextTransform]_vars

(***************************************************************************)
(* Claims about the normalisation functions, checked under SpecTransform   *)
(***************************************************************************)
\* The conditionUnified vocabulary.
ConditionVocabulary ==
    {"Clear", "Rain", "Snow", "Clouds", "Fog", "Mist", "Wind", "Thunderstorm",
     "Extreme", "All"}

\* C8: mapIconToCondition returns a member of the conditionUnified
\* vocabulary for each of the 13 vendor icon codes, and the catch-all All for
\* every other input string (empty, unknown, or any arbitrary key).
C8_MapIconTotal ==
    (call.fn = "mapIconToCondition" /\ ret.done) =>
        /\ (call.icon \in VendorIcons /\ call.adapter = "p0")
              => ret.value \in ConditionVocabulary
        /\ (call.icon \in VendorIcons /\ call.adapter = "ts")
              => ret.value \in Weather
        /\ (call.icon \notin VendorIcons) => ret.value = "All"

\* The normalised value of the ratio field a transformResponse call varies.
RatioOutput ==
    CASE call.field = "humidity" -> ret.value.current.humidity
      [] call.field = "dailyHumidity" -> ret.value.daily[1].humidity
      [] call.field = "dailyCloudCover" -> ret.value.daily[1].cloudCover

Abs(x) == IF x < 0 THEN -x ELSE x

\* C9: for every humidity or cloud-cover ratio in [0,1], in either adapter,
\* the normalised value is an integer in [0,100] nearest to ratio * 100.
C9_RatioToPercent ==
    (call.fn = "transformResponse" /\ call.field \in RatioFields /\ ret.done) =>
        \E n \in 0..100 :
            /\ RatioOutput = Fixed(n)
            /\ 2 * Abs(Fixed(n) - call.ratio * 100) <= Fixed(1)

\* The 16 compass points clockwise from north.
CompassPoints ==
    <<"N", "NNE", "NE", "ENE", "E", "ESE", "SE", "SSE",
      "S", "SSW", "SW", "WSW", "W", "WNW", "NW", "NNW">>

\* Angular distance, in half degrees, between bearing b and the centre of
\* sector k (k * 22.5 degrees), around the circle.
SectorDistance(b, k) ==
    LET d == Abs((b % 720) - 45 * k) IN IF d > 360 THEN 720 - d ELSE d

\* C10: for every bearing from 0 to 360 degrees in half-degree steps,
\* bearingToDirection returns the compass point whose sector centre is
\* nearest to the bearing; 0 gives N, 22.5 NNE, 180 S, 359 and 360 N.
C10_NearestCompassPoint ==
    (call.fn = "bearingToDirection" /\ ret.done) =>
        /\ \E k \in 0..15 :
              /\ ret.value = CompassPoints[k + 1]
              /\ \A j \in 0..15 :
                    SectorDistance(call.bearing, k) <= SectorDistance(call.bearing, j)
        /\ (call.bearing = 0) => ret.value = "N"
        /\ (call.bearing = 45) => ret.value = "NNE"
        /\ (call.bearing = 360) => ret.value = "S"
        /\ (call.bearing \in {718, 720}) => ret.value = "N"

C10_Witness ==
    /\ call.fn = "bearingToDirection"
    /\ call.bearing = 718
    /\ ret.done
    /\ ret.value = "N"

\* C11: for a vendor daily series of n entries, the normalised daily
\* sequence has min(n, 7) entries and its i-th entry is the normalisation of
\* the vendor's i-th entry (same date, none reordered, skipped or
\* duplicated); 10 vendor entries give exactly 7.
C11_FirstSevenInOrder ==
    (call.fn = "transformResponse" /\ ret.done) =>
        LET out == ret.value.daily
            n == call.days
        IN /\ Len(out) = IF n < 7 THEN n ELSE 7
           /\ (n = 10) => Len(out) = 7
           /\ \A i \in 1..Len(out) :
                 /\ out[i].date = 86400 * i * 1000
                 /\ out[i] = IF call.adapter = "ts"
                             THEN transformDailyWeather(VendorDay(call, i))
                             ELSE transformDailyWeather_p0(VendorDay(call, i))

C11_Witness ==
    /\ call.fn = "transformResponse"
    /\ call.days = 10
    /\ ret.done
    /\ Len(ret.value.daily) = 7
    /\ ret.value.daily[7].date = 86400 * 7 * 1000

(***************************************************************************)
(* SpecRegistry: the providers module is evaluated, then callers register  *)
(***************************************************************************)
InitRegistry ==
    /\ CardInit /\ FetchIdle /\ PureIdle /\ BarIdle
    /\ loaded = 0
    /\ registry = <<>>
    /\ registered = <<>>

NextRegistry ==
    \/ LoadRegisterOpenWeatherMap
    \/ LoadRegisterPirateWeather
    \/ \E id \in ProviderIds : registerWeatherProvider(id)

SpecRegistry == InitRegistry /\ [][NextRegistry]_vars

\* The ids passed to register so far.
RegisteredIds == {registered[k].id : k \in 1..Len(registered)}

\* The last instance passed to register under id.
LastRegistered(id) ==
    LET ks == {k \in 1..Len(registered) : registered[k].id = id}
    IN registered[CHOOSE k \in ks : \A j \in ks : j <= k]

\* C12: after any sequence of register calls (openweathermap, then
\* pirateweather, then any registerWeatherProvider calls), getWeatherProvider
\* returns the most recently registered instance for every registered id and
\* nothing for any other id, and getAllWeatherProviders has as many entries
\* as there are distinct registered ids.
C12_LastRegistrationWins ==
    /\ \A id \in RegisteredIds : getWeatherProvider(id) = LastRegistered(id)
    /\ \A id \in ProviderIds \ RegisteredIds : getWeatherProvider(id) = NoProvider
    /\ Len(getAllWeatherProviders) = Cardinality(RegisteredIds)

C12_Witness ==
    /\ Len(registered) >= 4
    /\ registered[3].id = "pirateweather"
    /\ registered[4].id = "pirateweather"
    /\ getWeatherProvider("pirateweather") = registered[4]
    /\ Len(getAllWeatherProviders) = 2

(***************************************************************************)
(* SpecBottomBar: the constructor registers, then renders and selections   *)
(***************************************************************************)
InitBottomBar ==
    /\ CardInit /\ FetchIdle /\ PureIdle /\ RegistryIdle
    /\ constructed = 0
    /\ bottomBarManager = NewBottomBarManager
    /\ rendered = NoRender
    /\ renders = 0
    /\ selections = 0

NextBottomBar ==
    \/ ConstructorRegister
    \/ \E c \in {"null", "transportation", "actionBar"} : SelectComponent(c)
    \/ render
    \/ \E v \in ShowWeatherValues : SetConfig(v)

SpecBottomBar == InitBottomBar /\ [][NextBottomBar]_vars

\* C13: registering never selects and rendering never changes the registry:
\* once the constructor has registered the transportation component and then
\* the action-bar component, both stay registered in that order whatever is
\* rendered or selected; and while no selection step has happened,
\* currentComponent is none and every render has been empty.
C13_RegisterAppendsRenderKeeps ==
    /\ (constructed = 2) =>
          bottomBarManager.components = <<"transportation", "actionBar">>
    /\ (constructed = 1) => bottomBarManager.components = <<"transportation">>
    /\ (selections = 0) =>
          /\ bottomBarManager.currentComponent = "null"
          /\ (renders > 0) =>
                (rendered.bottomBar = "" /\ rendered.clockMarginStyle = "")

C13_Witness ==
    /\ constructed = 2
    /\ selections = 0
    /\ renders >= 2
    /\ rendered.bottomBar = ""
    /\ bottomBarManager.components = <<"transportation", "actionBar">>
    /\ bottomBarManager.currentComponent = "null"

====
